---- MODULE Spec2Model ----
(***************************************************************************)
(* The Entity protocol of zine (src/entity/mod.rs): the two-phase          *)
(* parse / render traversal over Zine, Theme, Season, Article and Page.    *)
(* Paths are sequences of components; the file system and the render sink  *)
(* are the environment.                                                    *)
(***************************************************************************)
EXTENDS Integers, Sequences, FiniteSets, TLC

VARIABLES fs, sinkFailAt, zine, pre, parseRes, nParses, renders

vars == <<fs, sinkFailAt, zine, pre, parseRes, nParses, renders>>

(* ------------------------------ bounds --------------------------------- *)
MaxSeasons == 2
MaxNumber == 2
MaxArticles == 2
MaxPages == 2
MaxParses == 2
MaxRenders == 2
MaxSortSeasons == 3

(* ------------------------- names used by the model --------------------- *)
SeasonPaths == <<"s1", "s2", "s3", "s4">>
SeasonSlugs == <<"season-1", "season-2", "season-3", "season-4">>
ArticleFiles == <<"a1.md", "a2.md", "a3.md", "a4.md">>
Markdowns == <<"# Hi", "one", "two", "three">>
DestNames == <<"out1", "out2", "out3", "out4">>
PageFiles == {<<"a.md">>, <<"foo", "bar.md">>, <<"bin.md">>}
SourceRoot == <<"content">>
FooterPath == "footer.html"
FooterText == "<footer/>"
ZINE_FILE == "zine.toml"

(* ------------------------------ results -------------------------------- *)
Ok == [kind |-> "Ok", path |-> <<>>]
Err(kind, path) == [kind |-> kind, path |-> path]
IsOk(r) == r.kind = "Ok"

(* ------------------------------ paths ---------------------------------- *)
Join(p, q) == p \o q

IsPrefix(p, q) == Len(p) <= Len(q) /\ SubSeq(q, 1, Len(p)) = p

StripPrefix(path, base) ==
    IF IsPrefix(base, path)
    THEN [res |-> Ok, rel |-> SubSeq(path, Len(base) + 1, Len(path))]
    ELSE [res |-> Err("StripPrefix", path), rel |-> <<>>]

(* --------------------------- file system ------------------------------- *)
TextFile(text) == [utf8 |-> TRUE, text |-> text, toml |-> FALSE, articles |-> <<>>]
BinaryFile == [utf8 |-> FALSE, text |-> "", toml |-> FALSE, articles |-> <<>>]
TomlFile(files) == [utf8 |-> TRUE, text |-> "", toml |-> TRUE, articles |-> files]

ReadToString(files, path) ==
    IF path \in DOMAIN files /\ files[path].utf8
    THEN [res |-> Ok, content |-> files[path]]
    ELSE [res |-> Err("Io", path), content |-> BinaryFile]

NewArticle(file) == [file |-> file, html |-> ""]

TomlFromStr(content, path) ==
    IF content.toml
    THEN [res |-> Ok,
          articles |-> [k \in 1..Len(content.articles) |-> NewArticle(content.articles[k])]]
    ELSE [res |-> Err("Toml", path), articles |-> <<>>]

PushHtml(html, text) ==
    html \o (IF text = "# Hi" THEN "<h1>Hi</h1>\n" ELSE "<p>" \o text \o "</p>\n")

WalkEntries(rel) ==
    IF Len(rel) > 1
    THEN <<[path |-> SubSeq(rel, 1, Len(rel) - 1), isFile |-> FALSE],
           [path |-> rel, isFile |-> TRUE]>>
    ELSE <<[path |-> rel, isFile |-> TRUE]>>

RECURSIVE WalkRest(_)
WalkRest(order) ==
    IF order = <<>> THEN <<>>
    ELSE WalkEntries(Head(order)) \o WalkRest(Tail(order))

WalkDir(f, dir) ==
    IF f.pagesDir
    THEN [res |-> Ok,
          entries |-> <<[path |-> dir, isFile |-> FALSE]>>
                      \o [i \in 1..Len(WalkRest(f.order)) |->
                            [path |-> Join(dir, WalkRest(f.order)[i].path),
                             isFile |-> WalkRest(f.order)[i].isFile]]]
    ELSE [res |-> Err("Io", dir), entries |-> <<>>]

(* ------------------------------- parse --------------------------------- *)
ArticleParse(a, source, files) ==
    LET r == ReadToString(files, Join(source, <<a.file>>))
    IN  IF IsOk(r.res)
        THEN [item |-> [a EXCEPT !.html = PushHtml(a.html, r.content.text)], res |-> Ok]
        ELSE [item |-> a, res |-> r.res]

VecArticleParseNoShortCircuit(items, source, files) ==
    LET f[i \in 0..Len(items)] ==
            IF i = 0 THEN [items |-> items, res |-> Ok]
            ELSE LET r == ArticleParse(items[i], source, files)
                 IN  [items |-> [f[i - 1].items EXCEPT ![i] = r.item],
                      res |-> IF IsOk(f[i - 1].res) THEN r.res ELSE f[i - 1].res]
    IN  f[Len(items)]

VecArticleParse(items, source, files) ==
    LET f[i \in 0..Len(items)] ==
            IF i = 0 THEN [items |-> items, res |-> Ok]
            ELSE IF ~IsOk(f[i - 1].res) THEN f[i - 1]
            ELSE LET r == ArticleParse(items[i], source, files)
                 IN  [items |-> [f[i - 1].items EXCEPT ![i] = r.item], res |-> r.res]
    IN  f[Len(items)]

SeasonParse(s, source, files) ==
    LET dir == Join(source, <<s.path>>)
        metaPath == Join(dir, <<ZINE_FILE>>)
        content == ReadToString(files, metaPath)
        season_file == TomlFromStr(content.content, metaPath)
        parsed == VecArticleParse(season_file.articles, dir, files)
    IN  IF ~IsOk(content.res) THEN [item |-> s, res |-> content.res]
        ELSE IF ~IsOk(season_file.res) THEN [item |-> s, res |-> season_file.res]
        ELSE [item |-> [s EXCEPT !.articles = parsed.items], res |-> parsed.res]

VecSeasonParseNoShortCircuit(items, source, files) ==
    LET f[i \in 0..Len(items)] ==
            IF i = 0 THEN [items |-> items, res |-> Ok]
            ELSE LET r == SeasonParse(items[i], source, files)
                 IN  [items |-> [f[i - 1].items EXCEPT ![i] = r.item],
                      res |-> IF IsOk(f[i - 1].res) THEN r.res ELSE f[i - 1].res]
    IN  f[Len(items)]

VecSeasonParse(items, source, files) ==
    LET f[i \in 0..Len(items)] ==
            IF i = 0 THEN [items |-> items, res |-> Ok]
            ELSE IF ~IsOk(f[i - 1].res) THEN f[i - 1]
            ELSE LET r == SeasonParse(items[i], source, files)
                 IN  [items |-> [f[i - 1].items EXCEPT ![i] = r.item], res |-> r.res]
    IN  f[Len(items)]

ThemeParse(t, source, files) ==
    IF t.footer_template.some
    THEN LET r == ReadToString(files, Join(source, <<t.footer_template.val>>))
         IN  IF IsOk(r.res)
             THEN [item |-> [t EXCEPT !.footer_template.val = r.content.text], res |-> Ok]
             ELSE [item |-> t, res |-> r.res]
    ELSE [item |-> t, res |-> Ok]

Perms(n) == {p \in [1..n -> 1..n] : \A i, j \in 1..n : p[i] = p[j] => i = j}

SortDescending(seasons) ==
    {[i \in 1..Len(seasons) |-> seasons[p[i]]] :
        p \in {q \in Perms(Len(seasons)) :
                 \A i, j \in 1..Len(seasons) :
                     i < j => seasons[q[i]].number >= seasons[q[j]].number}}

SortOmitted(seasons) == {seasons}

SortUnstableByKey(seasons) ==
    {[i \in 1..Len(seasons) |-> seasons[p[i]]] :
        p \in {q \in Perms(Len(seasons)) :
                 \A i, j \in 1..Len(seasons) :
                     i < j => seasons[q[i]].number <= seasons[q[j]].number}}

ParsePagesKeepPrefix(pages, source, f) ==
    LET page_dir == Join(source, <<"pages">>)
        walk == WalkDir(f, page_dir)
        g[i \in 0..Len(walk.entries)] ==
            IF i = 0 THEN [pages |-> pages, res |-> Ok]
            ELSE IF ~IsOk(g[i - 1].res) THEN g[i - 1]
            ELSE IF ~walk.entries[i].isFile THEN g[i - 1]
            ELSE LET path == walk.entries[i].path
                     markdown == ReadToString(f.files, path)
                 IN  IF ~IsOk(markdown.res) THEN [pages |-> g[i - 1].pages, res |-> markdown.res]
                     ELSE [pages |-> Append(g[i - 1].pages,
                                            [html |-> PushHtml("", markdown.content.text),
                                             file_path |-> path]),
                           res |-> Ok]
    IN  IF ~IsOk(walk.res) THEN [pages |-> pages, res |-> walk.res]
        ELSE g[Len(walk.entries)]

ParsePages(pages, source, f) ==
    LET page_dir == Join(source, <<"pages">>)
        walk == WalkDir(f, page_dir)
        g[i \in 0..Len(walk.entries)] ==
            IF i = 0 THEN [pages |-> pages, res |-> Ok]
            ELSE IF ~IsOk(g[i - 1].res) THEN g[i - 1]
            ELSE IF ~walk.entries[i].isFile THEN g[i - 1]
            ELSE LET path == walk.entries[i].path
                     markdown == ReadToString(f.files, path)
                     rel == StripPrefix(path, page_dir)
                 IN  IF ~IsOk(markdown.res) THEN [pages |-> g[i - 1].pages, res |-> markdown.res]
                     ELSE IF ~IsOk(rel.res) THEN [pages |-> g[i - 1].pages, res |-> rel.res]
                     ELSE [pages |-> Append(g[i - 1].pages,
                                            [html |-> PushHtml("", markdown.content.text),
                                             file_path |-> rel.rel]),
                           res |-> Ok]
    IN  IF ~IsOk(walk.res) THEN [pages |-> pages, res |-> walk.res]
        ELSE g[Len(walk.entries)]

ZineParse(z, source, f) ==
    LET theme == ThemeParse(z.theme, source, f.files)
        seasons == VecSeasonParse(z.seasons, source, f.files)
        z1 == [z EXCEPT !.theme = theme.item, !.seasons = seasons.items]
    IN  IF ~IsOk(theme.res) THEN {[zine |-> z, res |-> theme.res]}
        ELSE IF ~IsOk(seasons.res) THEN {[zine |-> z1, res |-> seasons.res]}
        ELSE {[zine |-> [z1 EXCEPT !.seasons = sorted,
                                   !.pages = ParsePages(z.pages, source, f).pages],
               res |-> ParsePages(z.pages, source, f).res] :
                 sorted \in SortUnstableByKey(z1.seasons)}

(* ------------------------------- render -------------------------------- *)
EmptyContext == [k \in {} |-> ""]

Insert(context, key, value) ==
    [k \in DOMAIN context \cup {key} |-> IF k = key THEN value ELSE context[k]]

Contexts == {EmptyContext, [site |-> "stale", user |-> "u"]}

NoOutput == [calls |-> <<>>, written |-> <<>>]

RenderSink(template, context, dest, io, failAt) ==
    LET call == [template |-> template, context |-> context, dest |-> dest]
    IN  IF Len(io.calls) + 1 = failAt
        THEN [io |-> [io EXCEPT !.calls = Append(io.calls, call)],
              res |-> Err("Render", dest)]
        ELSE [io |-> [calls |-> Append(io.calls, call), written |-> Append(io.written, call)],
              res |-> Ok]

Slug(file_path) ==
    IF file_path = <<"a.md">> THEN "a"
    ELSE IF file_path = <<"foo", "bar.md">> THEN "foo/bar"
    ELSE "bin"

SeasonRender(s, context, dest, io, failAt) ==
    RenderSink("season.jinja", Insert(context, "season", s), Join(dest, <<s.slug>>), io, failAt)

ArticleRender(a, context, dest, io, failAt) ==
    RenderSink("article.jinja", Insert(context, "article", a), dest, io, failAt)

PageRender(p, context, dest, io, failAt) ==
    RenderSink("page.jinja", Insert(context, "content", p.html), Join(dest, <<Slug(p.file_path)>>),
               io, failAt)

VecSeasonRenderIgnoreErr(items, render, dest, io, failAt) ==
    LET f[i \in 0..Len(items)] ==
            IF i = 0 THEN [io |-> io, res |-> Ok]
            ELSE [io |-> SeasonRender(items[i], render, dest, f[i - 1].io, failAt).io, res |-> Ok]
    IN  f[Len(items)]

VecSeasonRender(items, render, dest, io, failAt) ==
    LET f[i \in 0..Len(items)] ==
            IF i = 0 THEN [io |-> io, res |-> Ok]
            ELSE IF ~IsOk(f[i - 1].res) THEN f[i - 1]
            ELSE SeasonRender(items[i], render, dest, f[i - 1].io, failAt)
    IN  f[Len(items)]

VecPageRender(items, render, dest, io, failAt) ==
    LET f[i \in 0..Len(items)] ==
            IF i = 0 THEN [io |-> io, res |-> Ok]
            ELSE IF ~IsOk(f[i - 1].res) THEN f[i - 1]
            ELSE PageRender(items[i], render, dest, f[i - 1].io, failAt)
    IN  f[Len(items)]

ZineRenderHomeFirst(z, context0, dest, failAt) ==
    LET context == Insert(Insert(context0, "theme", z.theme), "site", z.site)
        home == RenderSink("index.jinja", Insert(context, "seasons", z.seasons), dest,
                           NoOutput, failAt)
        seasons == VecSeasonRender(z.seasons, context, dest, home.io, failAt)
        pages == VecPageRender(z.pages, context, Join(dest, <<"page">>), seasons.io, failAt)
    IN  IF ~IsOk(home.res) THEN home
        ELSE IF ~IsOk(seasons.res) THEN seasons
        ELSE pages

ZineRenderSharedContext(z, context0, dest, failAt) ==
    LET context == Insert(Insert(Insert(context0, "theme", z.theme), "site", z.site),
                          "seasons", z.seasons)
        seasons == VecSeasonRender(z.seasons, context, dest, NoOutput, failAt)
        pages == VecPageRender(z.pages, context, Join(dest, <<"page">>), seasons.io, failAt)
        home == RenderSink("index.jinja", context, dest, pages.io, failAt)
    IN  IF ~IsOk(seasons.res) THEN seasons
        ELSE IF ~IsOk(pages.res) THEN pages
        ELSE home

ZineRender(z, context0, dest, failAt) ==
    LET context == Insert(Insert(context0, "theme", z.theme), "site", z.site)
        seasons == VecSeasonRender(z.seasons, context, dest, NoOutput, failAt)
        pages == VecPageRender(z.pages, context, Join(dest, <<"page">>), seasons.io, failAt)
        home == RenderSink("index.jinja", Insert(context, "seasons", z.seasons), dest,
                           pages.io, failAt)
    IN  IF ~IsOk(seasons.res) THEN seasons
        ELSE IF ~IsOk(pages.res) THEN pages
        ELSE home

RenderRecord(z, context, dest, failAt) ==
    [tree |-> z, context |-> context, dest |-> dest,
     calls |-> ZineRender(z, context, dest, failAt).io.calls,
     written |-> ZineRender(z, context, dest, failAt).io.written,
     res |-> ZineRender(z, context, dest, failAt).res]

(* --------------------------- initial states ---------------------------- *)
FilesOf(pairs) == [p \in {x[1] : x \in pairs} |-> (CHOOSE x \in pairs : x[1] = p)[2]]

MetaChoices ==
    {[meta |-> "absent", decl |-> 0, missing |-> 0],
     [meta |-> "malformed", decl |-> 0, missing |-> 0]}
    \cup {[meta |-> "ok", decl |-> k, missing |-> j] : k \in 0..MaxArticles, j \in 0..MaxArticles}

Declares(k) == [meta |-> "ok", decl |-> k, missing |-> 0]

SeasonFilePairs(i, m) ==
    IF m.meta = "absent" THEN {}
    ELSE {<<Join(SourceRoot, <<SeasonPaths[i], ZINE_FILE>>),
            IF m.meta = "malformed" THEN TextFile("garbage")
            ELSE TomlFile([k \in 1..m.decl |-> ArticleFiles[k]])>>}
         \cup {<<Join(SourceRoot, <<SeasonPaths[i], ArticleFiles[k]>>), TextFile(Markdowns[k])>> :
                 k \in (1..m.decl) \ {m.missing}}

PageContent(rel) ==
    IF rel = <<"bin.md">> THEN BinaryFile
    ELSE IF rel = <<"a.md">> THEN TextFile("# Hi") ELSE TextFile("page")

PageOrders(files) ==
    {<<>>} \cup UNION {{o \in [1..n -> files] : \A i, j \in 1..n : o[i] = o[j] => i = j} :
                         n \in 1..MaxPages}

ThemeChoices == {"none", "present", "missing"}

InitFs(n, meta, theme, pagesDir, order) ==
    [files |-> FilesOf(UNION {SeasonFilePairs(i, meta[i]) : i \in 1..n}
                       \cup (IF theme = "present"
                             THEN {<<Join(SourceRoot, <<FooterPath>>), TextFile(FooterText)>>}
                             ELSE {})
                       \cup (IF pagesDir
                             THEN {<<Join(SourceRoot, <<"pages">>) \o order[i], PageContent(order[i])>> :
                                     i \in 1..Len(order)}
                             ELSE {})),
     pagesDir |-> pagesDir,
     order |-> IF pagesDir THEN order ELSE <<>>]

InitZine(n, nums, theme) ==
    [theme |-> [footer_template |-> [some |-> theme # "none", val |-> IF theme = "none" THEN "" ELSE FooterPath]],
     site |-> "site",
     seasons |-> [i \in 1..n |-> [number |-> nums[i], slug |-> SeasonSlugs[i],
                                  path |-> SeasonPaths[i], articles |-> <<>>]],
     pages |-> <<>>]

(* Season numbers declared in descending order (wrapping at MaxNumber).    *)
Descending(n) == [i \in 1..n |-> 1 + ((n - i) % MaxNumber)]

InitState(f, z, failAt) ==
    /\ fs = f
    /\ zine = z
    /\ sinkFailAt = failAt
    /\ pre = z
    /\ parseRes = Ok
    /\ nParses = 0
    /\ renders = <<>>

(* Content trees whose seasons may lack or garble their metadata or miss   *)
(* article files; the render sink never fails.                             *)
Init ==
    \E n \in 0..MaxSeasons :
        \E meta \in [1..n -> MetaChoices], theme \in ThemeChoices,
           pagesDir \in BOOLEAN, order \in {<<>>, << <<"a.md">> >>} :
             /\ \A i \in 1..n : meta[i].missing <= meta[i].decl
             /\ (~pagesDir => order = <<>>)
             /\ InitState(InitFs(n, meta, theme, pagesDir, order),
                          InitZine(n, Descending(n), theme), 0)

(* Content trees that vary in their pages directory. *)
InitPages ==
    \E n \in 0..1, theme \in ThemeChoices, pagesDir \in BOOLEAN, order \in PageOrders(PageFiles) :
        /\ (~pagesDir => order = <<>>)
        /\ InitState(InitFs(n, [i \in 1..n |-> Declares(1)], theme, pagesDir, order),
                     InitZine(n, Descending(n), theme), 0)

(* Readable content trees that vary in the declared season numbers. *)
InitSort ==
    \E n \in 0..MaxSortSeasons :
        \E nums \in [1..n -> 1..MaxNumber] :
            InitState(InitFs(n, [i \in 1..n |-> Declares(0)], "none", TRUE, <<>>),
                      InitZine(n, nums, "none"), 0)

MaxSinkCalls == MaxSeasons + MaxPages + 1

(* Readable content trees; the render sink fails at its failAt-th          *)
(* invocation of a render (0: never).                                      *)
InitRender ==
    \E n \in 0..MaxSeasons :
        \E decl \in [1..n -> {0, MaxArticles}],
           order \in PageOrders(PageFiles \ {<<"bin.md">>}), failAt \in 0..MaxSinkCalls :
             InitState(InitFs(n, [i \in 1..n |-> Declares(decl[i])], "none", TRUE, order),
                       InitZine(n, Descending(n), "none"), failAt)

(* ------------------------------ actions -------------------------------- *)
(* renders is the log of the render calls made on the tree since the last  *)
(* parse; render is called on a successfully parsed publication only.      *)
Parse ==
    /\ nParses < MaxParses
    /\ \E out \in ZineParse(zine, SourceRoot, fs) :
         /\ zine' = out.zine
         /\ parseRes' = out.res
    /\ pre' = zine
    /\ nParses' = nParses + 1
    /\ renders' = <<>>
    /\ UNCHANGED <<fs, sinkFailAt>>

RenderConsumingPages ==
    /\ nParses > 0
    /\ IsOk(parseRes)
    /\ Len(renders) < MaxRenders
    /\ \E context \in Contexts :
         renders' = Append(renders,
                           RenderRecord(zine, context,
                                        <<DestNames[Len(renders) + 1]>>, sinkFailAt))
    /\ zine' = [zine EXCEPT !.pages = <<>>]
    /\ UNCHANGED <<fs, sinkFailAt, pre, parseRes, nParses>>

Render ==
    /\ nParses > 0
    /\ IsOk(parseRes)
    /\ Len(renders) < MaxRenders
    /\ \E context \in Contexts :
         renders' = Append(renders,
                           RenderRecord(zine, context,
                                        <<DestNames[Len(renders) + 1]>>, sinkFailAt))
    /\ UNCHANGED <<fs, sinkFailAt, zine, pre, parseRes, nParses>>

Next == Parse \/ Render

Spec == Init /\ [][Next]_vars

SpecPages == InitPages /\ [][Next]_vars

SpecSort == InitSort /\ [][Next]_vars

SpecRender == InitRender /\ [][Next]_vars

(* ======================= properties of parse =========================== *)
ParseOk == nParses > 0 /\ IsOk(parseRes)

ParseFailed == nParses > 0 /\ ~IsOk(parseRes)

SeasonDir(s) == Join(SourceRoot, <<s.path>>)

MetaPath(s) == Join(SeasonDir(s), <<ZINE_FILE>>)

Positions(slug) == {k \in 1..Len(zine.seasons) : zine.seasons[k].slug = slug}

Pos(slug) == CHOOSE k \in Positions(slug) : TRUE

(* C1: after a successful Zine.parse the seasons are sorted ascending by   *)
(* number and are a permutation of the seasons declared before the call.   *)
C1_SortedPermutation ==
    ParseOk =>
        /\ \A i \in 1..(Len(zine.seasons) - 1) :
               zine.seasons[i].number <= zine.seasons[i + 1].number
        /\ Len(zine.seasons) = Len(pre.seasons)
        /\ \E p \in Perms(Len(pre.seasons)) :
               \A i \in 1..Len(pre.seasons) :
                   /\ zine.seasons[i].slug = pre.seasons[p[i]].slug
                   /\ zine.seasons[i].number = pre.seasons[p[i]].number
                   /\ zine.seasons[i].path = pre.seasons[p[i]].path

C1_Witness ==
    /\ ParseOk
    /\ nParses = 1
    /\ Len(pre.seasons) = 3
    /\ pre.seasons[1].number = 2 /\ pre.seasons[2].number = 1 /\ pre.seasons[3].number = 2
    /\ zine.seasons[1].number = 1 /\ zine.seasons[2].number = 2 /\ zine.seasons[3].number = 2
    /\ zine.seasons[1].slug = pre.seasons[2].slug

(* The failing article of a failed parse: season i of the list, article n  *)
(* of its declared list, whose file could not be read.                     *)
ArticleFailure(i, n) ==
    /\ ParseFailed
    /\ i \in 1..Len(zine.seasons)
    /\ n \in 1..Len(zine.seasons[i].articles)
    /\ parseRes = Err("Io", Join(SeasonDir(zine.seasons[i]), <<zine.seasons[i].articles[n].file>>))

(* C2: when the Nth article of a season cannot be read, no later article   *)
(* of that season is parsed, no later season is parsed, no page is         *)
(* discovered, the same failure comes out of Article.parse, Season.parse,  *)
(* the Vec fan-out and Zine.parse, and nothing is rendered for that parse. *)
C2_ArticleFailFast ==
    \A i \in 1..Len(zine.seasons) : \A n \in 1..Len(zine.seasons[i].articles) :
        ArticleFailure(i, n) =>
            /\ \A k \in 1..Len(zine.seasons[i].articles) :
                   /\ k >= n => zine.seasons[i].articles[k].html = ""
                   /\ k < n => zine.seasons[i].articles[k].html # ""
            /\ \A j \in 1..Len(zine.seasons) : j > i => zine.seasons[j] = pre.seasons[j]
            /\ zine.pages = pre.pages
            /\ ArticleParse(NewArticle(zine.seasons[i].articles[n].file),
                            SeasonDir(zine.seasons[i]), fs.files).res = parseRes
            /\ SeasonParse(pre.seasons[i], SourceRoot, fs.files).res = parseRes
            /\ VecSeasonParse(pre.seasons, SourceRoot, fs.files).res = parseRes
            /\ renders = <<>>

C2_Witness ==
    /\ nParses = 1
    /\ Len(zine.seasons) = 2
    /\ ArticleFailure(1, 1)
    /\ Len(zine.seasons[1].articles) = 2
    /\ zine.seasons[1].articles[2].html = ""
    /\ MetaPath(zine.seasons[2]) \in DOMAIN fs.files
    /\ fs.files[MetaPath(zine.seasons[2])].toml
    /\ fs.files[MetaPath(zine.seasons[2])].articles # <<>>
    /\ zine.seasons[2].articles = <<>>
    /\ fs.order # <<>>
    /\ zine.pages = <<>>

MetaAbsent(s) == MetaPath(s) \notin DOMAIN fs.files

(* C3 as stated: whenever some season's metadata file is absent, parse     *)
(* returns an I/O failure and no season has a populated article list.      *)
C3_NoSeasonPopulated ==
    (nParses > 0 /\ \E i \in 1..Len(pre.seasons) : MetaAbsent(pre.seasons[i])) =>
        /\ parseRes.kind = "Io"
        /\ \A j \in 1..Len(zine.seasons) : zine.seasons[j].articles = <<>>

(* C3 amended: with an absent season metadata file parse fails; that       *)
(* season and every later one keep the article list they had before the    *)
(* call, and when the failure returned is that file's I/O failure the      *)
(* seasons before it hold the populated article lists their metadata       *)
(* declares.                                                               *)
C3_FailingSeasonOnwardUntouched ==
    \A i \in 1..Len(pre.seasons) :
        (nParses > 0 /\ MetaAbsent(pre.seasons[i])) =>
            /\ ~IsOk(parseRes)
            /\ Len(zine.seasons) = Len(pre.seasons)
            /\ \A j \in i..Len(zine.seasons) : zine.seasons[j] = pre.seasons[j]
            /\ parseRes = Err("Io", MetaPath(pre.seasons[i])) =>
                   \A j \in 1..(i - 1) :
                       /\ Len(zine.seasons[j].articles)
                            = Len(fs.files[MetaPath(pre.seasons[j])].articles)
                       /\ \A k \in 1..Len(zine.seasons[j].articles) :
                              /\ zine.seasons[j].articles[k].file
                                   = fs.files[MetaPath(pre.seasons[j])].articles[k]
                              /\ zine.seasons[j].articles[k].html # ""

C3_Witness ==
    /\ nParses = 1
    /\ Len(pre.seasons) = 2
    /\ MetaAbsent(pre.seasons[2])
    /\ parseRes = Err("Io", MetaPath(pre.seasons[2]))
    /\ pre.seasons[1].articles = <<>>
    /\ Len(zine.seasons[1].articles) = 2
    /\ zine.seasons[2].articles = <<>>

PagesRoot == Join(SourceRoot, <<"pages">>)

PagesAt(from, rel) == {k \in from..Len(zine.pages) : zine.pages[k].file_path = rel}

(* C4 as stated: after a successful parse exactly one Page per regular     *)
(* file under the pages root, and no other Pages, whatever the page list   *)
(* held before the call.                                                   *)
C4_ExactlyOnePagePerFile ==
    ParseOk =>
        /\ \A i \in 1..Len(fs.order) : Cardinality(PagesAt(1, fs.order[i])) = 1
        /\ Len(zine.pages) = Len(fs.order)

(* C4 amended: a successful parse appends to the page list it found        *)
(* exactly one Page per regular file under the pages root, in walk order,  *)
(* with file_path relative to the pages root; the earlier Pages stay.      *)
C4_AppendsOnePagePerFile ==
    ParseOk =>
        /\ Len(zine.pages) = Len(pre.pages) + Len(fs.order)
        /\ SubSeq(zine.pages, 1, Len(pre.pages)) = pre.pages
        /\ \A i \in 1..Len(fs.order) :
               /\ Join(PagesRoot, fs.order[i]) \in DOMAIN fs.files
               /\ zine.pages[Len(pre.pages) + i].file_path = fs.order[i]
               /\ PagesAt(Len(pre.pages) + 1, fs.order[i]) = {Len(pre.pages) + i}
        /\ \A k \in 1..Len(zine.pages) : ~IsPrefix(PagesRoot, zine.pages[k].file_path)

C4_Witness ==
    /\ ParseOk
    /\ nParses = 2
    /\ Len(pre.pages) = 2
    /\ Len(zine.pages) = 4
    /\ PagesAt(1, <<"foo", "bar.md">>) = {1, 3}

(* C7 as stated: seasons sharing a number keep their declaration order.    *)
C7_StableOrder ==
    ParseOk =>
        \A a, b \in 1..Len(pre.seasons) :
            (a < b /\ pre.seasons[a].number = pre.seasons[b].number) =>
                Pos(pre.seasons[a].slug) < Pos(pre.seasons[b].slug)

(* C7 amended: seasons sharing a number are both kept and end up next to   *)
(* each other (only seasons of that number lie between them); which of the *)
(* two comes first is not fixed.                                           *)
C7_EqualNumbersGrouped ==
    ParseOk =>
        \A a, b \in 1..Len(pre.seasons) :
            (a # b /\ pre.seasons[a].number = pre.seasons[b].number) =>
                /\ Cardinality(Positions(pre.seasons[a].slug)) = 1
                /\ Cardinality(Positions(pre.seasons[b].slug)) = 1
                /\ \A k \in 1..Len(zine.seasons) :
                       ( /\ Pos(pre.seasons[a].slug) < k
                         /\ k < Pos(pre.seasons[b].slug) ) =>
                           zine.seasons[k].number = pre.seasons[a].number

C7_Witness ==
    /\ ParseOk
    /\ nParses = 1
    /\ Len(pre.seasons) = 3
    /\ pre.seasons[1].number = 1 /\ pre.seasons[2].number = 2 /\ pre.seasons[3].number = 1
    /\ zine.seasons[1].slug = pre.seasons[3].slug
    /\ zine.seasons[2].slug = pre.seasons[1].slug
    /\ zine.seasons[3].slug = pre.seasons[2].slug

(* ======================= properties of render ========================== *)
RelCalls(r, calls) ==
    [i \in 1..Len(calls) |->
        [template |-> calls[i].template,
         context |-> calls[i].context,
         inside |-> IsOk(StripPrefix(calls[i].dest, r.dest).res),
         rel |-> StripPrefix(calls[i].dest, r.dest).rel]]

ArticleCalls(r, s, a) ==
    {i \in 1..Len(r.calls) :
        /\ r.calls[i].template = "article.jinja"
        /\ "article" \in DOMAIN r.calls[i].context
        /\ r.calls[i].context.article = a
        /\ IsPrefix(Join(r.dest, <<s.slug>>), r.calls[i].dest)}

RECURSIVE ArticleCount(_)
ArticleCount(seasons) ==
    IF seasons = <<>> THEN 0 ELSE Len(Head(seasons).articles) + ArticleCount(Tail(seasons))

(* C6: a successful render invokes the sink once per output node: the home *)
(* page, each season, each page and, for every article of every season,    *)
(* once with the article template inside that season's directory.          *)
C6_ArticlesRendered ==
    \A r \in 1..Len(renders) :
        IsOk(renders[r].res) =>
            /\ \A s \in 1..Len(renders[r].tree.seasons) :
                   \A a \in 1..Len(renders[r].tree.seasons[s].articles) :
                       Cardinality(ArticleCalls(renders[r], renders[r].tree.seasons[s],
                                                renders[r].tree.seasons[s].articles[a])) = 1
            /\ Len(renders[r].calls)
                 = 1 + Len(renders[r].tree.seasons) + ArticleCount(renders[r].tree.seasons)
                     + Len(renders[r].tree.pages)

ExpectedTargets(r) ==
    [i \in 1..Len(r.tree.seasons) |->
        [template |-> "season.jinja", dest |-> Join(r.dest, <<r.tree.seasons[i].slug>>)]]
    \o [k \in 1..Len(r.tree.pages) |->
        [template |-> "page.jinja",
         dest |-> Join(r.dest, <<"page", Slug(r.tree.pages[k].file_path)>>)]]
    \o <<[template |-> "index.jinja", dest |-> r.dest]>>

Targets(calls) ==
    [i \in 1..Len(calls) |-> [template |-> calls[i].template, dest |-> calls[i].dest]]

(* C8: a successful render invokes the sink for the seasons in (sorted)    *)
(* list order at <dest>/<slug>, then for the pages in list order at        *)
(* <dest>/page/<slug(file_path)>, then once for the home page at <dest>,   *)
(* which is the last invocation.                                           *)
C8_RenderOrder ==
    \A r \in 1..Len(renders) :
        IsOk(renders[r].res) =>
            /\ Targets(renders[r].calls) = ExpectedTargets(renders[r])
            /\ \A i \in 1..(Len(renders[r].tree.seasons) - 1) :
                   renders[r].tree.seasons[i].number <= renders[r].tree.seasons[i + 1].number
            /\ renders[r].calls[Len(renders[r].calls)].template = "index.jinja"
            /\ Cardinality({i \in 1..Len(renders[r].calls) :
                              renders[r].calls[i].template = "index.jinja"}) = 1

C8_Witness ==
    /\ Len(renders) >= 1
    /\ IsOk(renders[1].res)
    /\ Len(renders[1].tree.seasons) = 2
    /\ renders[1].tree.seasons[1].slug = SeasonSlugs[2]
    /\ Len(renders[1].tree.pages) = 2
    /\ Len(renders[1].calls) = 5

Extends(context, incoming, added) ==
    /\ DOMAIN context = DOMAIN incoming \cup added
    /\ \A k \in DOMAIN incoming \ added : context[k] = incoming[k]

(* C9: every sink invocation of a render receives the incoming bindings    *)
(* plus theme and site plus its own binding only: season (that very        *)
(* season) for a season, content (its own html) for a page, seasons (the   *)
(* season list) for the home page.                                         *)
C9_ContextIsolation ==
    \A r \in 1..Len(renders) : \A i \in 1..Len(renders[r].calls) :
        LET call == renders[r].calls[i]
            tree == renders[r].tree
            nS == Len(tree.seasons)
            nP == Len(tree.pages)
        IN  /\ i <= nS + nP + 1
            /\ call.context.theme = tree.theme
            /\ call.context.site = tree.site
            /\ i <= nS =>
                   /\ call.template = "season.jinja"
                   /\ Extends(call.context, renders[r].context, {"theme", "site", "season"})
                   /\ call.context.season = tree.seasons[i]
            /\ (nS < i /\ i <= nS + nP) =>
                   /\ call.template = "page.jinja"
                   /\ Extends(call.context, renders[r].context, {"theme", "site", "content"})
                   /\ call.context.content = tree.pages[i - nS].html
            /\ i = nS + nP + 1 =>
                   /\ call.template = "index.jinja"
                   /\ Extends(call.context, renders[r].context, {"theme", "site", "seasons"})
                   /\ call.context.seasons = tree.seasons

C9_Witness ==
    /\ Len(renders) >= 1
    /\ IsOk(renders[1].res)
    /\ DOMAIN renders[1].context = {"site", "user"}
    /\ Len(renders[1].tree.seasons) = 2
    /\ Len(renders[1].tree.pages) >= 1
    /\ renders[1].calls[2].context.season = renders[1].tree.seasons[2]
    /\ renders[1].calls[2].context.site = "site"
    /\ renders[1].calls[2].context.user = "u"
    /\ DOMAIN renders[1].calls[3].context = {"content", "site", "theme", "user"}

(* C10: when the k-th sink invocation of a render fails, render returns    *)
(* that failure, makes no invocation after the k-th, and the outputs of    *)
(* invocations 1..k-1 stay written.                                        *)
C10_RenderFailFast ==
    \A r \in 1..Len(renders) :
        /\ (sinkFailAt > 0 /\ Len(renders[r].calls) >= sinkFailAt) =>
               /\ renders[r].res = Err("Render", renders[r].calls[sinkFailAt].dest)
               /\ Len(renders[r].calls) = sinkFailAt
               /\ renders[r].written = SubSeq(renders[r].calls, 1, sinkFailAt - 1)
               /\ Targets(renders[r].calls)
                    = SubSeq(ExpectedTargets(renders[r]), 1, sinkFailAt)
        /\ ~IsOk(renders[r].res) => Len(renders[r].calls) = sinkFailAt
        /\ IsOk(renders[r].res) => renders[r].written = renders[r].calls

C10_Witness ==
    /\ Len(renders) >= 1
    /\ sinkFailAt = 2
    /\ ~IsOk(renders[1].res)
    /\ Len(renders[1].tree.seasons) = 2
    /\ Len(renders[1].tree.pages) = 2
    /\ Len(renders[1].calls) = 2
    /\ Len(renders[1].written) = 1
    /\ renders[1].calls[2].template = "season.jinja"

====
